---- MODULE Spec2Model ----
(***************************************************************************)
(* Model of the FOHSerial serial-port handle (serial.cpp / serial.h):      *)
(* baud conversion, termios attribute application, the constructor's       *)
(* parameter decoding, and the byte-wise write / newline-delimited read.   *)
(*                                                                         *)
(* A termios flag word (tcflag_t, 32 bit) is the set of its set bit        *)
(* positions: x | y is a union, x & ~y a difference, and x |= ~y the union *)
(* with the complement within 0..31.                                       *)
(***************************************************************************)
EXTENDS Integers, Sequences, FiniteSets

\* ------------------------------------------------------------- bounds
MaxWrite == 2
MaxRead == 2
MaxOpens == 2
MaxApplies == 2

\* ------------------------------------------------ 32-bit flag words
Bits32 == 0..31

\* the set bits of a speed code (a non-negative number below 2^13)
BitsOf(n) == {i \in 0..12 : (n \div (2 ^ i)) % 2 = 1}

Not(x) == Bits32 \ x

\* ------------------------------------- <termios.h> values used by the code
B50 == 1
B75 == 2
B110 == 3
B134 == 4
B150 == 5
B200 == 6
B300 == 7
B600 == 8
B1200 == 9
B1800 == 10
B2400 == 11
B4800 == 12
B9600 == 13
B19200 == 14
B38400 == 15
B57600 == 4097
B115200 == 4098
B230400 == 4099
B460800 == 4100

\* c_cflag
CBAUD == {0, 1, 2, 3, 12}
CS5 == {}
CS6 == {4}
CS7 == {5}
CS8 == {4, 5}
CSTOPB == {6}
CREAD == {7}
PARENB == {8}
PARODD == {9}
HUPCL == {10}
CLOCAL == {11}
CRTSCTS == {31}
\* c_iflag
IGNBRK == {0}
BRKINT == {1}
IGNPAR == {2}
PARMRK == {3}
INPCK == {4}
IGNCR == {7}
ICRNL == {8}
IXON == {10}
IXANY == {11}
IXOFF == {12}
\* c_lflag
ISIG == {0}
ICANON == {1}
ECHO == {3}
ECHOE == {4}

\* bytes
NUL == 0
NL == 10
CR == 13

\* ------------------------------------------------------- __convBaud
\* the same chain with the 134 rung comparing strictly
convBaud_strict134(num) ==
    IF num >= 460800 THEN B460800
    ELSE IF num >= 230400 THEN B230400
    ELSE IF num >= 115200 THEN B115200
    ELSE IF num >= 57600 THEN B57600
    ELSE IF num >= 38400 THEN B38400
    ELSE IF num >= 19200 THEN B19200
    ELSE IF num >= 9600 THEN B9600
    ELSE IF num >= 4800 THEN B4800
    ELSE IF num >= 2400 THEN B2400
    ELSE IF num >= 1800 THEN B1800
    ELSE IF num >= 1200 THEN B1200
    ELSE IF num >= 600 THEN B600
    ELSE IF num >= 300 THEN B300
    ELSE IF num >= 200 THEN B200
    ELSE IF num >= 150 THEN B150
    ELSE IF num > 134 THEN B134
    ELSE IF num >= 110 THEN B110
    ELSE IF num >= 75 THEN B75
    ELSE B50

\* speed_t FOHSerial::__convBaud(int num): the termios speed code
__convBaud(num) ==
    IF num >= 460800 THEN B460800
    ELSE IF num >= 230400 THEN B230400
    ELSE IF num >= 115200 THEN B115200
    ELSE IF num >= 57600 THEN B57600
    ELSE IF num >= 38400 THEN B38400
    ELSE IF num >= 19200 THEN B19200
    ELSE IF num >= 9600 THEN B9600
    ELSE IF num >= 4800 THEN B4800
    ELSE IF num >= 2400 THEN B2400
    ELSE IF num >= 1800 THEN B1800
    ELSE IF num >= 1200 THEN B1200
    ELSE IF num >= 600 THEN B600
    ELSE IF num >= 300 THEN B300
    ELSE IF num >= 200 THEN B200
    ELSE IF num >= 150 THEN B150
    ELSE IF num >= 134 THEN B134
    ELSE IF num >= 110 THEN B110
    ELSE IF num >= 75 THEN B75
    ELSE B50

\* ----------------------------------------------------------- termios
ZeroTermios ==
    [c_iflag |-> {}, c_oflag |-> {}, c_cflag |-> {}, c_lflag |-> {},
     vmin |-> 0, vtime |-> 0, c_ispeed |-> 0, c_ospeed |-> 0]

\* cfsetospeed / cfsetispeed: the speed code replaces the CBAUD bits
cfsetospeed(t, speed) ==
    [t EXCEPT !.c_cflag = (@ \ CBAUD) \cup BitsOf(speed), !.c_ospeed = speed]

cfsetispeed(t, speed) ==
    [t EXCEPT !.c_cflag = (@ \ CBAUD) \cup BitsOf(speed), !.c_ispeed = speed]

\* the CSn bits or-ed into c_cflag for a byte length
CSbits(clen) ==
    IF clen = 5 THEN CS5
    ELSE IF clen = 6 THEN CS6
    ELSE IF clen = 7 THEN CS7
    ELSE IF clen = 8 THEN CS8
    ELSE {}

\* speed, byte length, CLOCAL/CREAD, break and CR handling, echo, VMIN/VTIME
SetBasic(t0, speed, clen) ==
    LET t1 == cfsetispeed(cfsetospeed(t0, speed), speed)
    IN  [t1 EXCEPT
           !.c_cflag = @ \cup BitsOf(speed) \cup CSbits(clen) \cup CLOCAL \cup CREAD,
           !.c_iflag = (((@ \cup Not(IGNBRK)) \ BRKINT) \ ICRNL) \ IGNCR,
           !.c_lflag = @ \cup ECHO \cup ECHOE,
           !.c_oflag = {},
           !.vmin = 1,
           !.vtime = 5]

\* flow control options, fctrl in 0..3
SetFlow(t, fctrl) ==
    LET X == IXON \cup IXOFF \cup IXANY
    IN  IF fctrl = 0 THEN
            [t EXCEPT !.c_iflag = @ \ X, !.c_cflag = @ \ CRTSCTS]
        ELSE IF fctrl = 1 THEN
            [t EXCEPT !.c_iflag = @ \cup Not(X), !.c_cflag = @ \ CRTSCTS]
        ELSE IF fctrl = 2 THEN
            [t EXCEPT !.c_iflag = @ \ X, !.c_cflag = @ \cup Not(CRTSCTS)]
        ELSE
            [t EXCEPT !.c_iflag = @ \cup Not(X), !.c_cflag = @ \cup Not(CRTSCTS)]

\* parity options; parityOn implies parityType in {1, 2}
SetParity(t, parityOn, parityType) ==
    IF parityOn THEN
        IF parityType = 1 THEN
            [t EXCEPT !.c_cflag = @ \cup Not(PARENB),
                      !.c_iflag = ((@ \ IGNPAR) \cup Not(PARMRK)) \cup Not(INPCK)]
        ELSE
            [t EXCEPT !.c_cflag = @ \cup Not(PARENB \cup PARODD),
                      !.c_iflag = ((@ \ IGNPAR) \cup Not(PARMRK)) \cup Not(INPCK)]
    ELSE
        [t EXCEPT !.c_cflag = @ \ (PARENB \cup PARODD),
                  !.c_iflag = ((@ \cup Not(IGNPAR)) \ PARMRK) \ INPCK]

\* the second stop bit requested with ^= in place of |=
SetStop_xor(t, stopbx) ==
    IF ~stopbx THEN [t EXCEPT !.c_cflag = @ \ CSTOPB]
    ELSE [t EXCEPT !.c_cflag = (@ \ Not(CSTOPB)) \cup (Not(CSTOPB) \ @)]

\* stop bit option
SetStop(t, stopbx) ==
    IF ~stopbx THEN [t EXCEPT !.c_cflag = @ \ CSTOPB]
    ELSE [t EXCEPT !.c_cflag = @ \cup Not(CSTOPB)]

\* the argument checks of if_attrib_set that return the zero structure
ArgsValid(speed, clen, parityOn, parityType, fctrl) ==
    /\ speed # 0
    /\ clen >= 5 /\ clen <= 8
    /\ fctrl \in 0..3
    /\ parityOn => parityType \in {1, 2}

\* struct termios FOHSerial::if_attrib_set(...) on a device whose attributes
\* are d; getOk / setOk are the outcomes of tcgetattr / tcsetattr.
\* Gives the returned structure, the device attributes afterwards and the
\* step that failed.
if_attrib_set(d, getOk, setOk, speed, clen, parityOn, parityType, fctrl, stopbx) ==
    IF ~getOk THEN [ret |-> ZeroTermios, dev |-> d, fail |-> "tcgetattr"]
    ELSE IF ~ArgsValid(speed, clen, parityOn, parityType, fctrl)
    THEN [ret |-> ZeroTermios, dev |-> d, fail |-> "validation"]
    ELSE LET tty == SetStop(SetParity(SetFlow(SetBasic(d, speed, clen), fctrl),
                                      parityOn, parityType), stopbx)
         IN  IF ~setOk THEN [ret |-> ZeroTermios, dev |-> d, fail |-> "tcsetattr"]
             ELSE [ret |-> tty, dev |-> tty, fail |-> "none"]

\* ------------------------------------------------ inputs of the model
\* requested bauds: every supported speed, its neighbours, zero, a negative
\* and values beyond both ends
Supported ==
    {50, 75, 110, 134, 150, 200, 300, 600, 1200, 1800, 2400, 4800, 9600,
     19200, 38400, 57600, 115200, 230400, 460800}

BaudInputs ==
    UNION {{s - 1, s, s + 1} : s \in Supported} \cup {-9600, -1, 0, 1, 1000000}

\* bauds used where the baud is not what is examined
FewBauds == {9600}

ParamWords == 0..255

FewParams == {67}

\* the indeterminate value the uninitialised local stopbx may hold
UninitValues == {0, 1, 64, 255}

\* attributes a device may have when it is opened
DevCooked ==
    [c_iflag |-> ICRNL \cup IXON, c_oflag |-> {0, 2},
     c_cflag |-> BitsOf(B9600) \cup CS8 \cup CREAD \cup HUPCL,
     c_lflag |-> ISIG \cup ICANON \cup ECHO \cup ECHOE,
     vmin |-> 1, vtime |-> 0, c_ispeed |-> B9600, c_ospeed |-> B9600]

Dev7E2 ==
    [c_iflag |-> INPCK \cup IGNCR, c_oflag |-> {},
     c_cflag |-> BitsOf(B115200) \cup CS7 \cup CSTOPB \cup PARENB \cup CREAD \cup CLOCAL,
     c_lflag |-> {},
     vmin |-> 0, vtime |-> 0, c_ispeed |-> B115200, c_ospeed |-> B115200]

DevInits == {DevCooked, Dev7E2}

\* what the caller's buffer holds before a read (a C string)
BufInits == {<<>>, <<120>>}

\* bytes a device may deliver
RxBytes == {97, NL, CR}

\* result of one read(fd, &c, 1): error, nothing read, or one byte
ReadOutcomes == {[n |-> -1, b |-> NUL], [n |-> 0, b |-> NUL]}
                   \cup {[n |-> 1, b |-> c] : c \in RxBytes}

\* result of one write(fd, p, 1)
WriteOutcomes == {-1, 0, 1}

\* ------------------------------------------------------------- state
VARIABLES
    pc,         \* "new", "live", "exited", "destroyed"
    speed,      \* constructor argument
    param,      \* constructor argument
    _serfd,     \* FOHSerial::_serfd
    _isValid,   \* FOHSerial::_isValid
    dev,        \* the device's line attributes
    openFds,    \* descriptors opened for the handle and not closed
    conv,       \* what __convBaud(speed) gave in the constructor
    cfg,        \* what the constructor passed to its own if_attrib_set call
    failedAt,   \* the constructor step that failed, "none" if none
    exitCode,   \* exit status once the process was terminated
    last        \* the last call: operation, size, result, device operations

vars == <<pc, speed, param, _serfd, _isValid, dev, openFds, conv,
          cfg, failedAt, exitCode, last>>

NoCfg == [clen |-> 0, parityOn |-> FALSE, parityType |-> 0, fctrl |-> 0,
          stopbx |-> FALSE, decoded |-> FALSE]

Call(op, valid, size, ret, ops, before, buf) ==
    [op |-> op, valid |-> valid, size |-> size, ret |-> ret, ops |-> ops,
     bufBefore |-> before, buf |-> buf]

NoCall == Call("none", FALSE, 0, 0, <<>>, <<>>, <<>>)

InitWith(bauds, params, devs) ==
    /\ pc = "new"
    /\ speed \in bauds
    /\ param \in params
    /\ _serfd = -1
    /\ _isValid = FALSE
    /\ dev \in devs
    /\ openFds = {}
    /\ conv = 0
    /\ cfg = NoCfg
    /\ failedAt = "none"
    /\ exitCode = -1
    /\ last = NoCall

Init == InitWith(FewBauds, FewParams, {DevCooked})

InitBaud == InitWith(BaudInputs, FewParams, DevInits)

InitParam == InitWith(FewBauds, ParamWords, DevInits)

\* ------------------------------------------- constructor: decode param
\* switch (param & 3)
decodeClen(w) ==
    LET v == w % 4
    IN  IF v = 0 THEN 5 ELSE IF v = 1 THEN 6 ELSE IF v = 2 THEN 7 ELSE 8

\* the parity switch with the cases 8 and 12 exchanged
decodeParity_swapped(w) ==
    LET v == ((w \div 4) % 4) * 4
    IN  IF v = 0 \/ v = 4 THEN [parityOn |-> FALSE, parityType |-> 0]
        ELSE IF v = 12 THEN [parityOn |-> TRUE, parityType |-> 1]
        ELSE [parityOn |-> TRUE, parityType |-> 2]

\* switch (param & 12)
decodeParity(w) ==
    LET v == ((w \div 4) % 4) * 4
    IN  IF v = 0 \/ v = 4 THEN [parityOn |-> FALSE, parityType |-> 0]
        ELSE IF v = 8 THEN [parityOn |-> TRUE, parityType |-> 1]
        ELSE [parityOn |-> TRUE, parityType |-> 2]

\* switch (param & 48)
decodeFctrl(w) ==
    LET v == ((w \div 16) % 4) * 16
    IN  IF v = 0 THEN 0 ELSE IF v = 16 THEN 1 ELSE IF v = 32 THEN 2 ELSE 3

\* if (stopbx & 64): the test reads the local stopbx, which has no value
\* yet, not param; u is the indeterminate value read
decodeStopbx(w, u) == (u \div 64) % 2 = 1

\* ------------------------------------------------- setupSerialPort
\* open() gives the lowest free descriptor
NewFd(fds) == CHOOSE f \in 3..(3 + MaxOpens) :
                 f \notin fds /\ \A g \in 3..(f - 1) : g \in fds

\* int FOHSerial::setupSerialPort(portname, speed) from device attributes d
\* and open descriptors fds; openOk, getOk, setOk are the outcomes of open,
\* tcgetattr and tcsetattr
setupSerialPort(d, fds, openOk, getOk, setOk, baud) ==
    IF ~openOk
    THEN [ret |-> -1, serfd |-> -1, dev |-> d, fds |-> fds, ops |-> <<>>,
          fail |-> "open"]
    ELSE LET fd == NewFd(fds)
             a  == if_attrib_set(d, getOk, setOk, __convBaud(baud), 8, FALSE, 0, 0, FALSE)
         IN  IF a.ret.c_cflag = {}
             THEN [ret |-> -1, serfd |-> fd, dev |-> a.dev, fds |-> fds \cup {fd},
                   ops |-> <<>>, fail |-> a.fail]
             ELSE [ret |-> 0, serfd |-> fd, dev |-> a.dev, fds |-> fds \cup {fd},
                   ops |-> <<<<"flush", 0, 0>>>>, fail |-> "none"]

\* the constructor never fails its second attribute application
AttribFailed_never(nterm) == FALSE

\* memcmp(&nterm, &ntref, sizeof(nterm)) == 0 in the constructor
AttribFailed(nterm) == nterm = ZeroTermios

\* FOHSerial::FOHSerial(port, speed, param)
Construct ==
    /\ pc = "new"
    /\ \E openOk, get1, set1, get2, set2 \in BOOLEAN, u \in UninitValues :
         LET s == setupSerialPort(dev, openFds, openOk, get1, set1, speed)
         IN  IF s.ret = -1
             THEN /\ _isValid' = FALSE
                  /\ _serfd' = s.serfd
                  /\ dev' = s.dev
                  /\ openFds' = s.fds
                  /\ conv' = IF openOk THEN __convBaud(speed) ELSE 0
                  /\ cfg' = NoCfg
                  /\ failedAt' = s.fail \o (IF s.fail = "open" THEN "" ELSE "1")
                  /\ last' = Call("ctor", FALSE, 0, 0, s.ops, <<>>, <<>>)
             ELSE LET clen == decodeClen(param)
                      par == decodeParity(param)
                      fctrl == decodeFctrl(param)
                      stopbx == decodeStopbx(param, u)
                      n == if_attrib_set(s.dev, get2, set2, __convBaud(speed), clen,
                                         par.parityOn, par.parityType, fctrl, stopbx)
                  IN  /\ _isValid' = ~AttribFailed(n.ret)
                      /\ _serfd' = s.serfd
                      /\ dev' = n.dev
                      /\ openFds' = s.fds
                          /\ conv' = __convBaud(speed)
                      /\ cfg' = [clen |-> clen, parityOn |-> par.parityOn,
                                 parityType |-> par.parityType, fctrl |-> fctrl,
                                 stopbx |-> stopbx, decoded |-> TRUE]
                      /\ failedAt' = IF n.fail = "none" THEN "none" ELSE n.fail \o "2"
                      /\ last' = Call("ctor", ~AttribFailed(n.ret), 0, 0, s.ops, <<>>, <<>>)
    /\ pc' = "live"
    /\ UNCHANGED <<speed, param, exitCode>>

\* ------------------------------------------------------ write path
\* the early return is missing
Rejected_never(valid) == FALSE

\* if (this->_isValid == false) return -1;  in writeToSerialPort
WriteRejected(valid) == valid = FALSE

\* if (this->_isValid == false) return -1;  in readFromSerialPort
ReadRejected(valid) == valid = FALSE

\* the loop of _serialPut from index i: outs[k] is what the k-th write()
\* returns; gives the final i and the write() calls issued
RECURSIVE PutLoop(_, _, _, _)
PutLoop(i, size, outs, ops) ==
    IF i < size
    THEN LET written == outs[i + 1]
             ops2 == Append(ops, <<"write", i, written>>)
         IN  IF written < 0 THEN [i |-> i, ops |-> ops2]
             ELSE PutLoop(i + 1, size, outs, ops2)
    ELSE [i |-> i, ops |-> ops]

\* int FOHSerial::_serialPut(buf, size)
_serialPut(valid, size, outs) ==
    IF valid = FALSE THEN [ret |-> -1, ops |-> <<>>, exit |-> FALSE]
    ELSE LET r == PutLoop(0, size, outs, <<>>)
         IN  [ret |-> r.i, ops |-> r.ops, exit |-> r.i > size]

\* the write() results a device behind descriptor fd can give
WriteOutcomesOn(fd) == IF fd < 0 THEN {-1} ELSE WriteOutcomes

\* int FOHSerial::writeToSerialPort(buf, size)
writeToSerialPort ==
    /\ pc = "live"
    /\ \E size \in 0..MaxWrite :
       \E outs \in [1..size -> WriteOutcomesOn(_serfd)] :
         IF WriteRejected(_isValid)
         THEN /\ last' = Call("write", _isValid, size, -1, <<>>, <<>>, <<>>)
              /\ UNCHANGED <<pc, exitCode>>
         ELSE LET r == _serialPut(_isValid, size, outs)
              IN  IF r.exit
                  THEN /\ pc' = "exited"
                       /\ exitCode' = 40
                       /\ last' = Call("write", _isValid, size, 0, r.ops, <<>>, <<>>)
                  ELSE /\ last' = Call("write", _isValid, size, size,
                                       Append(r.ops, <<"flush", 0, 0>>), <<>>, <<>>)
                       /\ UNCHANGED <<pc, exitCode>>
    /\ UNCHANGED <<speed, param, _serfd, _isValid, dev, openFds, conv, cfg, failedAt>>

\* ------------------------------------------------------- read path
\* the result of read() is not examined
ReadFailed_never(n) == FALSE

\* if (n == -1) return -1;
ReadFailed(n) == n = -1

\* strncat(*buf, &_cbuf, sizeof(char)): a NUL byte ends the source at once
strncat(dest, c) == IF c = NUL THEN dest ELSE Append(dest, c)

\* (_cbuf != '\n' || _cbuf != '\r')
NotDelimiter(c) == c # NL \/ c # CR

\* _read--; return _read;  size_t 0 wraps to SIZE_MAX, which converts to int -1
ReadResult(rd) == IF rd = 0 THEN -1 ELSE rd - 1

\* the loop of readFromSerialPort: rx[k] is the outcome of the k-th read()
RECURSIVE ReadLoop(_, _, _, _, _, _)
ReadLoop(cbuf, rd, size, rx, out, ops) ==
    IF cbuf # NL /\ rd < size
    THEN LET o == rx[rd + 1]
             ops2 == Append(ops, <<"read", o.n, o.b>>)
         IN  IF ReadFailed(o.n) THEN [ret |-> -1, buf |-> out, ops |-> ops2]
             ELSE LET c == IF o.n = 1 THEN o.b ELSE cbuf
                  IN  ReadLoop(c, rd + 1, size, rx,
                               IF NotDelimiter(c) THEN strncat(out, c) ELSE out,
                               ops2)
    ELSE [ret |-> ReadResult(rd), buf |-> out, ops |-> ops]

\* the read() results a device behind descriptor fd can give
ReadOutcomesOn(fd) == IF fd < 0 THEN {[n |-> -1, b |-> NUL]} ELSE ReadOutcomes

\* int FOHSerial::readFromSerialPort(buf, size)
readFromSerialPort ==
    /\ pc = "live"
    /\ \E size \in 0..MaxRead, before \in BufInits :
       \E rx \in [1..size -> ReadOutcomesOn(_serfd)] :
         IF ReadRejected(_isValid)
         THEN last' = Call("read", _isValid, size, -1, <<>>, before, before)
         ELSE LET r == ReadLoop(NUL, 0, size, rx, before, <<<<"flush", 0, 0>>>>)
              IN  last' = Call("read", _isValid, size, r.ret, r.ops, before, r.buf)
    /\ UNCHANGED <<pc, speed, param, _serfd, _isValid, dev, openFds, conv, cfg,
                   failedAt, exitCode>>

\* ------------------------------------- calls on a constructed handle
\* argument tuples for a direct if_attrib_set call: a valid one and one
\* for each argument check
AttrArgs ==
    {[speed |-> B115200, clen |-> 7, parityOn |-> TRUE, parityType |-> 1,
      fctrl |-> 2, stopbx |-> TRUE],
     [speed |-> 0, clen |-> 8, parityOn |-> FALSE, parityType |-> 0,
      fctrl |-> 0, stopbx |-> FALSE],
     [speed |-> B9600, clen |-> 9, parityOn |-> FALSE, parityType |-> 0,
      fctrl |-> 0, stopbx |-> FALSE],
     [speed |-> B9600, clen |-> 8, parityOn |-> TRUE, parityType |-> 3,
      fctrl |-> 0, stopbx |-> FALSE],
     [speed |-> B9600, clen |-> 8, parityOn |-> FALSE, parityType |-> 0,
      fctrl |-> 4, stopbx |-> FALSE]}

\* open() can succeed while the descriptor bound is not reached
OpenOutcomes(fds) == IF Cardinality(fds) < MaxOpens THEN BOOLEAN ELSE {FALSE}

\* tcgetattr on a descriptor: fails on -1
GetOutcomes(fd) == IF fd < 0 THEN {FALSE} ELSE BOOLEAN

\* setupSerialPort called on the constructed handle
CallSetupSerialPort ==
    /\ pc = "live"
    /\ \E baud \in FewBauds, openOk \in OpenOutcomes(openFds), getOk, setOk \in BOOLEAN :
         LET s == setupSerialPort(dev, openFds, openOk, getOk, setOk, baud)
         IN  /\ _serfd' = s.serfd
             /\ dev' = s.dev
             /\ openFds' = s.fds
             /\ last' = Call("setup", _isValid, 0, s.ret, s.ops, <<>>, <<>>)
    /\ UNCHANGED <<pc, speed, param, _isValid, conv, cfg, failedAt, exitCode>>

\* if_attrib_set called on the constructed handle
CallIfAttribSet ==
    /\ pc = "live"
    /\ \E a \in AttrArgs, getOk \in GetOutcomes(_serfd), setOk \in BOOLEAN :
         LET r == if_attrib_set(dev, getOk, setOk, a.speed, a.clen, a.parityOn,
                                a.parityType, a.fctrl, a.stopbx)
         IN  /\ dev' = r.dev
             /\ last' = Call("attrib", _isValid, 0,
                             IF r.ret = ZeroTermios THEN -1 ELSE 0, <<>>, <<>>, <<>>)
    /\ UNCHANGED <<pc, speed, param, _serfd, _isValid, openFds, conv, cfg,
                   failedAt, exitCode>>

\* the handle's lifetime ends: the class declares no destructor, so the
\* implicit one runs and releases nothing
Destroy ==
    /\ pc = "live"
    /\ pc' = "destroyed"
    /\ UNCHANGED <<speed, param, _serfd, _isValid, dev, openFds, conv, cfg,
                   failedAt, exitCode, last>>

Next ==
    \/ Construct
    \/ writeToSerialPort
    \/ readFromSerialPort
    \/ CallSetupSerialPort
    \/ CallIfAttribSet
    \/ Destroy

Spec == Init /\ [][Next]_vars

\* construction and destruction alone, for what the constructor computes
NextLifetime ==
    \/ Construct
    \/ Destroy

SpecBaud == InitBaud /\ [][NextLifetime]_vars

SpecParam == InitParam /\ [][NextLifetime]_vars

\* ------------------------- if_attrib_set applied to an open descriptor
\* device attributes with no bit set and with every bit set
DevClear == ZeroTermios

DevAllSet ==
    [c_iflag |-> Bits32, c_oflag |-> Bits32, c_cflag |-> Bits32,
     c_lflag |-> Bits32, vmin |-> 255, vtime |-> 255,
     c_ispeed |-> B460800, c_ospeed |-> B460800]

DevWide == DevInits \cup {DevClear, DevAllSet}

\* valid argument tuples of if_attrib_set
ApplyArgs ==
    {[speed |-> sp, clen |-> cl, parityOn |-> par[1], parityType |-> par[2],
      fctrl |-> fc, stopbx |-> sb] :
        sp \in {B115200}, cl \in {5, 8},
        par \in {<<FALSE, 0>>, <<TRUE, 1>>, <<TRUE, 2>>},
        fc \in {0, 2}, sb \in BOOLEAN}

\* how many such calls the handle has seen
Applies == IF last.op = "apply" THEN last.k ELSE 0

\* the run of successful applications with arguments a that a further one
\* extends: its length (2 stands for two or more) and the attributes the
\* device had after its first application
RunAfter(a, ok, after) ==
    IF ~ok THEN [n |-> 0, first |-> after]
    ELSE IF last.op = "apply" /\ last.n >= 1 /\ last.args = a
         THEN [n |-> 2, first |-> last.first]
         ELSE [n |-> 1, first |-> after]

\* if_attrib_set called with valid arguments on the handle's open
\* descriptor; the call is remembered with its arguments
ApplyIfAttribSet ==
    /\ pc = "live"
    /\ _serfd >= 0
    /\ Applies < MaxApplies
    /\ \E a \in ApplyArgs, getOk, setOk \in BOOLEAN :
         LET r == if_attrib_set(dev, getOk, setOk, a.speed, a.clen, a.parityOn,
                                a.parityType, a.fctrl, a.stopbx)
             ok == r.fail = "none"
             run == RunAfter(a, ok, r.dev)
         IN  /\ dev' = r.dev
             /\ last' = [op |-> "apply", args |-> a,
                         ret |-> IF r.ret = ZeroTermios THEN -1 ELSE 0,
                         n |-> run.n, first |-> run.first, k |-> Applies + 1]
    /\ UNCHANGED <<pc, speed, param, _serfd, _isValid, openFds, conv, cfg,
                   failedAt, exitCode>>

InitAttr == InitWith(FewBauds, FewParams, DevWide)

NextAttr ==
    \/ Construct
    \/ ApplyIfAttribSet
    \/ Destroy

SpecAttr == InitAttr /\ [][NextAttr]_vars

\* =================================================================
\* Properties
\* =================================================================

\* the line speed a termios speed code stands for
BaudOf(code) ==
    CASE code = B50 -> 50 [] code = B75 -> 75 [] code = B110 -> 110
      [] code = B134 -> 134 [] code = B150 -> 150 [] code = B200 -> 200
      [] code = B300 -> 300 [] code = B600 -> 600 [] code = B1200 -> 1200
      [] code = B1800 -> 1800 [] code = B2400 -> 2400 [] code = B4800 -> 4800
      [] code = B9600 -> 9600 [] code = B19200 -> 19200 [] code = B38400 -> 38400
      [] code = B57600 -> 57600 [] code = B115200 -> 115200
      [] code = B230400 -> 230400 [] code = B460800 -> 460800
      [] OTHER -> 0

\* the largest supported speed that is <= b, the minimum when there is none
FloorSupported(b) ==
    LET below == {s \in Supported : s <= b}
    IN  IF below = {} THEN 50
        ELSE CHOOSE s \in below : \A t \in below : t <= s

\* the constructor got as far as converting the baud
Converted == pc # "new" /\ failedAt # "open"

\* C1: for every requested baud b, __convBaud(b) is a speed of the supported
\* set: the largest supported speed <= b, 460800 above the maximum, 50 below
\* the minimum (zero and negative b included); and it is non-decreasing in b.
C1_ConvBaudFloor ==
    Converted =>
        /\ BaudOf(conv) \in Supported
        /\ BaudOf(conv) = FloorSupported(speed)
        /\ speed > 460800 => BaudOf(conv) = 460800
        /\ speed < 50 => BaudOf(conv) = 50
        /\ \A b \in BaudInputs :
              b <= speed => BaudOf(__convBaud(b)) <= BaudOf(conv)

\* a baud strictly between two supported speeds was converted to the lower one
C1_Witness == Converted /\ speed = 135 /\ conv = B134

\* C2: on a handle that is not valid, writeToSerialPort and
\* readFromSerialPort return -1 and issue no write, read or flush on the
\* descriptor (and leave the caller's buffer alone).
C2_InvalidRejects ==
    (last.op \in {"write", "read"} /\ ~last.valid) =>
        /\ last.ret = -1
        /\ last.ops = <<>>
        /\ last.buf = last.bufBefore

\* a two-byte write was refused on a handle whose descriptor is open but
\* whose attributes could not be applied
C2_Witness ==
    /\ last.op = "write" /\ ~last.valid /\ last.size = 2
    /\ _serfd >= 0 /\ last.ret = -1

\* the device operations of one kind among those of a call
OpsOf(kind, ops) == SelectSeq(ops, LAMBDA o : o[1] = kind)

\* the write() calls of the last call, and those the device accepted
Writes == OpsOf("write", last.ops)

Accepted == Len(SelectSeq(Writes, LAMBDA o : o[3] = 1))

ValidWriteReturned == last.op = "write" /\ last.valid /\ pc # "exited"

\* C3: on a valid handle writeToSerialPort(buf, n) issues one-byte writes in
\* order, stops at the first byte the device does not accept, and returns
\* the count of bytes the device accepted: n when every byte was accepted,
\* never n when fewer were.
C3_WriteReturnsAccepted ==
    ValidWriteReturned =>
        /\ \A k \in 1..Len(Writes) : Writes[k][2] = k - 1
        /\ \A k \in 1..Len(Writes) : Writes[k][3] # 1 => k = Len(Writes)
        /\ last.ret = Accepted
        /\ Accepted = last.size => last.ret = last.size
        /\ Accepted < last.size => last.ret # last.size

\* C4: a write on a valid handle that transfers fewer bytes than requested
\* ends in the fatal outcome, exit code 40, and never returns normally.
C4_ShortWriteIsFatal ==
    (last.op = "write" /\ last.valid /\ Accepted < last.size) =>
        (pc = "exited" /\ exitCode = 40)

\* the read() calls of the last call and the bytes they delivered
Reads == OpsOf("read", last.ops)

RECURSIVE BeforeNewline(_)
BeforeNewline(bytes) ==
    IF bytes = <<>> \/ Head(bytes) = NL THEN <<>>
    ELSE <<Head(bytes)>> \o BeforeNewline(Tail(bytes))

Delivered == [k \in 1..Len(Reads) |-> Reads[k][3]]

\* a read on a valid handle in which every read() delivered a byte and a
\* newline arrived within maxBytes
LineRead ==
    /\ last.op = "read" /\ last.valid
    /\ \A k \in 1..Len(Reads) : Reads[k][2] = 1
    /\ \E k \in 1..Len(Reads) : Reads[k][3] = NL

\* C5: on a valid handle whose device delivers a line without error,
\* readFromSerialPort appends exactly the bytes received before the first
\* newline, never the newline itself, and returns the number of bytes it
\* appended: for m payload bytes followed by a newline it returns m and the
\* output holds those m bytes.
C5_ReadLine ==
    LineRead =>
        /\ last.buf = last.bufBefore \o BeforeNewline(Delivered)
        /\ \A k \in (Len(last.bufBefore) + 1)..Len(last.buf) : last.buf[k] # NL
        /\ last.ret = Len(BeforeNewline(Delivered))
        /\ last.ret = Len(last.buf) - Len(last.bufBefore)

FailedRead ==
    /\ last.op = "read" /\ last.valid
    /\ \E k \in 1..Len(Reads) : Reads[k][2] = -1

\* C6 as stated: a read error makes the call return -1 and leaves the
\* caller's buffer as it was before the call.
C6_ErrorDiscardsPartial ==
    FailedRead => (last.ret = -1 /\ last.buf = last.bufBefore)

\* what the reads before the failing one put into the buffer: the byte a read
\* delivered, or the byte received last again when it returned 0 bytes
RECURSIVE Kept(_, _)
Kept(reads, prev) ==
    IF reads = <<>> \/ Head(reads)[2] = -1 THEN <<>>
    ELSE LET c == IF Head(reads)[2] = 1 THEN Head(reads)[3] ELSE prev
         IN  (IF c = NUL THEN <<>> ELSE <<c>>) \o Kept(Tail(reads), c)

\* C6 (amended): a read error makes the call return -1, and the bytes the
\* call appended before the error stay in the caller's buffer, after what
\* the buffer held before the call.
C6_ErrorKeepsPartial ==
    FailedRead => (last.ret = -1 /\ last.buf = last.bufBefore \o Kept(Reads, NUL))

\* one byte arrived, the next read failed, and the byte is in the buffer
C6_Witness ==
    /\ FailedRead /\ Len(Reads) = 2 /\ Reads[1] = <<"read", 1, 97>>
    /\ last.bufBefore = <<120>> /\ last.buf = <<120, 97>> /\ last.ret = -1

\* the two-bit field of w that starts at bit n
Field(w, n) == (w \div (2 ^ n)) % 4

C8_StopBitIsBit6 ==
    cfg.decoded => (cfg.stopbx <=> (param \div 64) % 2 = 1)

\* C9: every descriptor the handle opened is closed by the end of its
\* lifetime.
C9_AllClosedAtEnd ==
    pc = "destroyed" => openFds = {}

\* C10: the handle is valid after construction exactly when the open and
\* both attribute applications succeeded, and an invalid handle never
\* becomes valid again.
C10_ValidIffAllSucceeded ==
    [][ /\ (pc = "new" /\ pc' = "live") => (_isValid' <=> failedAt' = "none")
        /\ (pc # "new" /\ ~_isValid) => ~_isValid' ]_vars

\* the second tcsetattr failed, a later direct if_attrib_set succeeded, and
\* the handle is still invalid
C10_Witness ==
    /\ pc = "live" /\ failedAt = "tcsetattr2" /\ ~_isValid
    /\ last.op = "attrib" /\ last.ret = 0

\* C11: if_attrib_set applied twice in a row with the same valid arguments
\* leaves the device with the same line attributes after the second
\* application as after the first, whatever the attributes were before.
C11_ApplyTwiceSame ==
    (last.op = "apply" /\ last.n = 2) => dev = last.first

\* the constructor's first tcgetattr failed, so the device still had the
\* attributes it was opened with (every bit set) when 5 bits, odd parity,
\* hardware flow control and two stop bits were applied to it twice
C11_Witness ==
    /\ last.op = "apply" /\ last.n = 2 /\ last.ret = 0
    /\ failedAt = "tcgetattr1"
    /\ last.args = [speed |-> B115200, clen |-> 5, parityOn |-> TRUE,
                    parityType |-> 2, fctrl |-> 2, stopbx |-> TRUE]
    /\ dev = last.first

\* the character-size field of c_cflag
CSIZE == CS5 \cup CS6 \cup CS7 \cup CS8

\* C12: after a successful construction with parameter word w the
\* character-size field of the attributes committed to the device is the
\* size decoded from bits 0-1 of w, whatever the device's attributes were
\* before and although setupSerialPort applied 8 data bits first.
C12_CommittedSizeIsDecoded ==
    (pc # "new" /\ _isValid) =>
        dev.c_cflag \cap CSIZE = CSbits(5 + Field(param, 0))

====
